---- MODULE Spec2Model ----
(***************************************************************************)
(* Model of src/app.py (Sentinel SLR dashboard): the JSON configuration    *)
(* file with per-rule win/loss counters, the SQLite trade log slr_log,     *)
(* the audit pass automated_audit, the "Process & Audit" batch of          *)
(* render_analyst and the "Reset Database" button.                         *)
(***************************************************************************)
EXTENDS Integers, Sequences, FiniteSets, TLC

\* ---- bounds of the model ------------------------------------------------
MaxPrice == 3      \* reported prices range over 1..MaxPrice
MaxTrades == 2     \* trades logged in one behaviour
MaxBatch == 2      \* images of one Process & Audit click
MaxResets == 1     \* Reset Database clicks

Prices == 1..MaxPrice
\* (target, stop) pairs the AI reports: target above stop (a long trade) and
\* target below stop (a short trade)
Setups == {<<MaxPrice, 1>>, <<1, MaxPrice>>}
\* stands for the value of a key that the response does not have
Absent == 0

\* ---- values of the program ---------------------------------------------
Rule1 == "Avoid chasing vertical moves."
Rule2 == "Check RSI for 70+ levels."
\* iteration order of the rule_stats dict (insertion order, kept by json)
RuleOrder == <<Rule1, Rule2>>
Rules == {Rule1, Rule2}

NULL == "NULL"
Win == "Win"
Loss == "Loss"

\* what load_config returns when CONFIG_FILE does not exist
DefaultConfig ==
  [version |-> "1.3",
   rule_stats |-> [r \in Rules |-> [wins |-> 0, losses |-> 0]]]

\* no local value (the variable is not bound in the current script run)
NoConfig == [version |-> "unbound", rule_stats |-> [r \in Rules |-> [wins |-> 0, losses |-> 0]]]
NoRule == "unbound"
NoResponse == [kind |-> "none", price |-> Absent, target |-> Absent, stop |-> Absent]

\* shapes of response.text, by the place where the try block fails on it:
\*   "notjson"    json.loads raises
\*   "no_price"   the key price is missing
\*   "no_row_key" a key of the INSERT's tuple (logic, target or stop) is missing
\*   "no_msg_key" a key of the st.success line (verdict or confidence) is missing
\*   "ok"         all six keys are there
Kinds == {"notjson", "no_price", "no_row_key", "no_msg_key", "ok"}

\* the responses the AI may give; of a response whose INSERT is never reached,
\* target and stop are never used and are left out
Responses ==
  {[kind |-> k,
    price |-> IF k \in {"notjson", "no_price"} THEN Absent ELSE p,
    target |-> IF k \in {"ok", "no_msg_key"} THEN s[1] ELSE Absent,
    stop |-> IF k \in {"ok", "no_msg_key"} THEN s[2] ELSE Absent] :
   k \in Kinds, p \in Prices, s \in Setups}

VARIABLES
  config_file,   \* CONFIG_FILE on disk: [exists, content]
  db_file,       \* DB_FILE on disk: [exists, slr_log]; a row's id is its index
  pc,            \* "idle", "rerun" (st.rerun pending) or "batch" (inside the image loop)
  config,        \* local config of render_analyst
  best_rule,     \* local best_rule of render_analyst
  todo,          \* images of img_files not yet processed
  response,      \* the AI response handled by the last loop iteration
  message,       \* what the last loop iteration displayed: "success", "error", "none"
  raised,        \* a script run ended with an uncaught exception
  resets,        \* Reset Database clicks so far
  inserted       \* INSERTs into slr_log so far

vars == <<config_file, db_file, pc, config, best_rule, todo, response, message, raised, resets, inserted>>

\* ---- configuration file --------------------------------------------------
\* variant: the default literal carries a counter that is not 0
load_config_wrong_default(cf) ==
  IF ~cf.exists THEN [DefaultConfig EXCEPT !.rule_stats[Rule1].wins = 1] ELSE cf.content

load_config(cf) == IF ~cf.exists THEN DefaultConfig ELSE cf.content

save_config(c) == [exists |-> TRUE, content |-> c]

\* ---- database ------------------------------------------------------------
\* variant: the table is not created
init_db_no_create(db) == db

\* CREATE TABLE IF NOT EXISTS: an existing table is kept, a missing one is created empty
init_db(db) == IF db.exists THEN db ELSE [exists |-> TRUE, slr_log |-> <<>>]

\* a SELECT on slr_log raises when the table is not there
read_sql_query(db) ==
  IF db.exists THEN [ok |-> TRUE, rows |-> db.slr_log]
               ELSE [ok |-> FALSE, rows |-> <<>>]

\* variant: the WHERE clause is missing
Pending_all_rows(log) == 1..Len(log)

\* SELECT * FROM slr_log WHERE outcome IS NULL: the ids of the pending rows
Pending(log) == {i \in 1..Len(log) : log[i].outcome = NULL}

\* variant: the target must be exceeded
Status_above_target(current_price, trade) ==
  IF current_price > trade.target_price THEN Win
  ELSE IF current_price <= trade.stop_price THEN Loss
  ELSE NULL

\* variant: the stop must be undercut
Status_below_stop(current_price, trade) ==
  IF current_price >= trade.target_price THEN Win
  ELSE IF current_price < trade.stop_price THEN Loss
  ELSE NULL

\* the branch of the audit loop taken for one trade
Status(current_price, trade) ==
  IF current_price >= trade.target_price THEN Win
  ELSE IF current_price <= trade.stop_price THEN Loss
  ELSE NULL

Bump(cfg, rule, field) ==
  [cfg EXCEPT !.rule_stats[rule][field] = @ + 1]

\* the loop over pending.iterrows(), in id order, from id i on
RECURSIVE AuditLoop(_, _, _, _, _, _)
AuditLoop(i, pending, log, cfg, updated, current_price) ==
  IF i > Len(log) THEN [log |-> log, config |-> cfg, updated |-> updated]
  ELSE IF i \notin pending
    THEN AuditLoop(i + 1, pending, log, cfg, updated, current_price)
  ELSE LET status == Status(current_price, log[i]) IN
    IF status = Win
      THEN AuditLoop(i + 1, pending, [log EXCEPT ![i].outcome = status],
                     Bump(cfg, log[i].rule_applied, "wins"), TRUE, current_price)
    ELSE IF status = Loss
      THEN AuditLoop(i + 1, pending, [log EXCEPT ![i].outcome = status],
                     Bump(cfg, log[i].rule_applied, "losses"), TRUE, current_price)
    ELSE AuditLoop(i + 1, pending, log, cfg, updated, current_price)

\* variant: save_config is not called
automated_audit_no_save(db, cf, current_price) ==
  LET r == AuditLoop(1, Pending(db.slr_log), db.slr_log, load_config(cf), FALSE, current_price)
  IN [db |-> [db EXCEPT !.slr_log = r.log], cf |-> cf]

\* automated_audit: the files after the pass
automated_audit(db, cf, current_price) ==
  LET r == AuditLoop(1, Pending(db.slr_log), db.slr_log, load_config(cf), FALSE, current_price)
  IN [db |-> [db EXCEPT !.slr_log = r.log],
      cf |-> IF r.updated THEN save_config(r.config) ELSE cf]

\* ---- analyst -------------------------------------------------------------
\* (wins+1)/(wins+losses+1) of rule a is greater than that of rule b
Better(rules, a, b) ==
  (rules[a].wins + 1) * (rules[b].wins + rules[b].losses + 1)
    > (rules[b].wins + 1) * (rules[a].wins + rules[a].losses + 1)

\* max(rules, key=...): the first key, in dict order, with the greatest key value
RECURSIVE MaxFrom(_, _, _)
MaxFrom(rules, i, best) ==
  IF i > Len(RuleOrder) THEN best
  ELSE MaxFrom(rules, i + 1, IF Better(rules, RuleOrder[i], best) THEN RuleOrder[i] ELSE best)

\* variant: min instead of max
BestRule_min(rules) == IF Better(rules, RuleOrder[1], RuleOrder[2]) THEN RuleOrder[2] ELSE RuleOrder[1]

BestRule(rules) == MaxFrom(rules, 2, RuleOrder[1])

\* INSERT INTO slr_log (...): outcome is not among the columns, so it is NULL
Insert(db, rule, data) ==
  [db EXCEPT !.slr_log = Append(@,
     [outcome |-> NULL, rule_applied |-> rule, entry_price |-> data.price,
      target_price |-> data.target, stop_price |-> data.stop])]

\* json.loads fails, or data['price'] is missing: nothing has run yet
FailsBeforeAudit(resp) == resp.kind \in {"notjson", "no_price"}
\* a key of the INSERT's argument tuple is missing: the audit has run
FailsBeforeInsert(resp) == resp.kind = "no_row_key"
\* a key of the st.success line is missing: audit and INSERT have run
FailsAfterInsert(resp) == resp.kind = "no_msg_key"
\* the INSERT is reached
Inserts(resp) == ~FailsBeforeAudit(resp) /\ ~FailsBeforeInsert(resp)
Malformed(resp) == resp.kind \in Kinds \ {"ok"}

\* variant: the new trade is logged before the audit runs
TryBlock_insert_first(db, cf, rule, resp) ==
  IF FailsBeforeAudit(resp) THEN [db |-> db, cf |-> cf]
  ELSE IF FailsBeforeInsert(resp) THEN automated_audit(db, cf, resp.price)
  ELSE automated_audit(Insert(db, rule, resp), cf, resp.price)

\* the body of the try block for one image: the files after it
TryBlock(db, cf, rule, resp) ==
  IF FailsBeforeAudit(resp) THEN [db |-> db, cf |-> cf]
  ELSE LET a == automated_audit(db, cf, resp.price) IN
    IF FailsBeforeInsert(resp) THEN a
    ELSE [db |-> Insert(a.db, rule, resp), cf |-> a.cf]

\* ---- state machine -------------------------------------------------------
Init ==
  /\ config_file = [exists |-> FALSE, content |-> NoConfig]
  /\ db_file = [exists |-> TRUE, slr_log |-> <<>>]
  /\ pc = "idle"
  /\ config = NoConfig
  /\ best_rule = NoRule
  /\ todo = 0
  /\ response = NoResponse
  /\ message = "none"
  /\ raised = FALSE
  /\ resets = 0
  /\ inserted = 0

\* a script run that shows the Analyst page and no button is pressed
RenderAnalyst ==
  /\ pc \in {"idle", "rerun"}
  /\ db_file' = init_db(db_file)
  /\ config' = load_config(config_file)
  /\ pc' = "idle"
  /\ best_rule' = NoRule
  /\ response' = NoResponse
  /\ message' = "none"
  /\ todo' = 0
  /\ UNCHANGED <<config_file, raised, resets, inserted>>

\* a script run that shows the Audit page: SELECT * FROM slr_log
ViewAudit ==
  /\ pc \in {"idle", "rerun"}
  /\ db_file' = init_db(db_file)
  /\ raised' = (raised \/ ~read_sql_query(init_db(db_file)).ok)
  /\ pc' = "idle"
  /\ config' = NoConfig
  /\ best_rule' = NoRule
  /\ response' = NoResponse
  /\ message' = "none"
  /\ todo' = 0
  /\ UNCHANGED <<config_file, resets, inserted>>

\* the Process & Audit button with n images: config is loaded, best_rule chosen
ClickProcess(n) ==
  /\ pc = "idle"
  /\ inserted < MaxTrades
  /\ db_file' = init_db(db_file)
  /\ config' = load_config(config_file)
  /\ best_rule' = BestRule(load_config(config_file).rule_stats)
  /\ todo' = n
  /\ pc' = "batch"
  /\ response' = NoResponse
  /\ message' = "none"
  /\ UNCHANGED <<config_file, raised, resets, inserted>>

\* one iteration of the loop over img_files, the AI answering resp
ProcessImage(resp) ==
  /\ pc = "batch"
  /\ todo > 0
  /\ Inserts(resp) => inserted < MaxTrades
  /\ LET r == TryBlock(db_file, config_file, best_rule, resp) IN
       /\ db_file' = r.db
       /\ config_file' = r.cf
  /\ response' = resp
  /\ message' = IF Malformed(resp) THEN "error" ELSE "success"
  /\ todo' = todo - 1
  /\ pc' = IF todo = 1 THEN "idle" ELSE "batch"
  /\ inserted' = IF Inserts(resp) THEN inserted + 1 ELSE inserted
  /\ UNCHANGED <<config, best_rule, raised, resets>>

\* the Reset Database button: DB_FILE is removed, then st.rerun()
ResetDatabase ==
  /\ pc = "idle"
  /\ resets < MaxResets
  /\ db_file' = [exists |-> FALSE, slr_log |-> <<>>]
  /\ pc' = "rerun"
  /\ resets' = resets + 1
  /\ config' = NoConfig
  /\ best_rule' = NoRule
  /\ response' = NoResponse
  /\ message' = "none"
  /\ todo' = 0
  /\ UNCHANGED <<config_file, raised, inserted>>

Next ==
  \/ RenderAnalyst
  \/ ViewAudit
  \/ \E n \in 1..MaxBatch : ClickProcess(n)
  \/ \E resp \in Responses : ProcessImage(resp)
  \/ ResetDatabase

Spec == Init /\ [][Next]_vars

\* ---- vocabulary of the properties ---------------------------------------
\* the trade log and the rule statistics as a reader finds them on disk
Log == db_file.slr_log
Stats == IF config_file.exists THEN config_file.content.rule_stats
         ELSE [r \in Rules |-> [wins |-> 0, losses |-> 0]]
\* ids of the trades whose outcome is NULL
Open == {i \in 1..Len(Log) : Log[i].outcome = NULL}
\* a step that handles one image of the batch
ImageStep == pc = "batch" /\ todo' = todo - 1
\* a step of a script run that calls load_config in render_analyst
LoadStep ==
  \/ pc = "idle" /\ pc' = "batch"
  \/ pc \in {"idle", "rerun"} /\ pc' = "idle" /\ config' # NoConfig
\* an image step whose response carries a price: automated_audit(price) runs
AuditStep == ImageStep /\ response'.kind \notin {"notjson", "no_price"}
TotalCount(st) == st[Rule1].wins + st[Rule1].losses + st[Rule2].wins + st[Rule2].losses
ZeroStats == [r \in Rules |-> [wins |-> 0, losses |-> 0]]
DocumentedDefault == [version |-> "1.3", rule_stats |-> ZeroStats]
\* p lies strictly between a and b, whichever of the two is the smaller
StrictlyBetween(p, a, b) == (a < p /\ p < b) \/ (b < p /\ p < a)

\* C1: in every audit pass with price p, each pending trade with p >= target_price
\* becomes a win, the wins counter of each rule grows by exactly the number of its
\* pending trades so hit, trades already closed are left as they are, and the
\* counters grow in total by the number of trades the pass closes (so a trade
\* closed earlier is never counted again).
C1_TargetClosesAsWinOnce ==
  [][AuditStep =>
      LET p == response'.price IN
      /\ \A i \in Open : p >= Log[i].target_price => Log'[i].outcome = Win
      /\ \A r \in Rules :
           Stats'[r].wins = Stats[r].wins
             + Cardinality({i \in Open : Log[i].rule_applied = r /\ p >= Log[i].target_price})
      /\ \A i \in (1..Len(Log)) \ Open : Log'[i] = Log[i]
      /\ TotalCount(Stats') = TotalCount(Stats)
             + Cardinality({i \in Open : Log'[i].outcome # NULL})
    ]_vars

\* C1 witness: the last step logged a trade after an audit pass whose price was
\* at or below the stop of a trade closed as a win before; that trade is still a
\* win and is counted once, as a win.
C1_Witness ==
  /\ Len(Log) = 2
  /\ response.kind = "ok"
  /\ Log[1].outcome = Win
  /\ response.price < Log[1].target_price
  /\ response.price <= Log[1].stop_price
  /\ Stats[Log[1].rule_applied].wins = 1
  /\ Stats[Log[1].rule_applied].losses = 0
  /\ resets = 0

\* C2 as stated: in every audit pass with price p, each pending trade with
\* p <= stop_price becomes a loss and the losses counter of each rule grows by the
\* number of its pending trades with p <= stop_price.
C2_Original ==
  [][AuditStep =>
      LET p == response'.price IN
      /\ \A i \in Open : p <= Log[i].stop_price => Log'[i].outcome = Loss
      /\ \A r \in Rules :
           Stats'[r].losses = Stats[r].losses
             + Cardinality({i \in Open : Log[i].rule_applied = r /\ p <= Log[i].stop_price})
    ]_vars

\* C2 amended: in every audit pass with price p, each pending trade with
\* p <= stop_price and p < target_price becomes a loss, the losses counter of each
\* rule grows by exactly the number of its pending trades so hit, no wins counter
\* grows on their account, and trades already closed are left as they are.
C2_StopBelowTargetClosesAsLossOnce ==
  [][AuditStep =>
      LET p == response'.price IN
      /\ \A i \in Open : (p <= Log[i].stop_price /\ p < Log[i].target_price)
                            => Log'[i].outcome = Loss
      /\ \A r \in Rules :
           /\ Stats'[r].losses = Stats[r].losses
                + Cardinality({i \in Open : /\ Log[i].rule_applied = r
                                            /\ p <= Log[i].stop_price
                                            /\ p < Log[i].target_price})
           /\ Stats'[r].wins = Stats[r].wins
                + Cardinality({i \in Open : /\ Log[i].rule_applied = r
                                            /\ ~(p <= Log[i].stop_price /\ p < Log[i].target_price)
                                            /\ Log'[i].outcome # NULL})
      /\ \A i \in (1..Len(Log)) \ Open : Log'[i] = Log[i]
    ]_vars

\* C2 witness: the last step logged a trade after an audit pass whose price was
\* at or above the target of a trade closed as a loss before; that trade is still
\* a loss and is counted once, as a loss.
C2_Witness ==
  /\ Len(Log) = 2
  /\ response.kind = "ok"
  /\ Log[1].outcome = Loss
  /\ response.price >= Log[1].target_price
  /\ Stats[Log[1].rule_applied].losses = 1
  /\ Stats[Log[1].rule_applied].wins = 0
  /\ resets = 0

\* C3: in every audit pass whose price lies strictly between a pending trade's
\* stop_price and target_price, that trade is still pending after the pass, and
\* the counters grow only by the trades the pass closes.
C3_BetweenStaysPending ==
  [][AuditStep =>
      LET p == response'.price IN
      /\ \A i \in Open :
           StrictlyBetween(p, Log[i].stop_price, Log[i].target_price)
             => Log'[i].outcome = NULL
      /\ TotalCount(Stats') = TotalCount(Stats)
           + Cardinality({i \in Open :
                /\ ~StrictlyBetween(p, Log[i].stop_price, Log[i].target_price)
                /\ Log'[i].outcome # NULL})
    ]_vars

\* C3 failing case: a short trade (target below stop) closed as a win by a price
\* strictly between its target and its stop.
C3_Divergence ==
  \E i \in 1..Len(Log) :
    /\ Log[i].outcome = Win
    /\ response.kind \notin {"none", "notjson", "no_price"}
    /\ Log[i].target_price < response.price
    /\ response.price < Log[i].stop_price

\* C4 as stated: the script run that follows a Reset Database click does not
\* raise, finds the trade log recreated and empty, and the rule statistics it
\* reads are the default rule set with all counters 0.
C4_Original ==
  [][pc = "rerun" =>
      /\ ~raised'
      /\ db_file' = [exists |-> TRUE, slr_log |-> <<>>]
      /\ Stats' = ZeroStats
      /\ (config' # NoConfig => config' = DocumentedDefault)
    ]_vars

\* C4 amended: a Reset Database click removes the trade log and leaves the
\* configuration file as it is; the script run that follows does not raise, finds
\* the trade log recreated and empty, and reads the rule statistics exactly as
\* they were before the reset (the defaults only while no configuration file
\* has been written).
C4_ResetKeepsStatistics ==
  [][/\ (resets' # resets =>
           /\ config_file' = config_file
           /\ ~db_file'.exists
           /\ pc' = "rerun")
     /\ (pc = "rerun" =>
           /\ ~raised'
           /\ db_file' = [exists |-> TRUE, slr_log |-> <<>>]
           /\ config_file' = config_file
           /\ (config' # NoConfig =>
                 config' = IF config_file.exists THEN config_file.content
                           ELSE DocumentedDefault))
    ]_vars

\* C4 witness: the statistics read after a reset still carry a counted trade
\* while the recreated log is empty.
C4_Witness ==
  /\ resets > 0
  /\ pc = "idle"
  /\ db_file = [exists |-> TRUE, slr_log |-> <<>>]
  /\ config # NoConfig
  /\ TotalCount(config.rule_stats) > 0
  /\ ~raised

C6_MalformedLeavesStateUntouched ==
  [][(ImageStep /\ response'.kind \in Kinds \ {"ok"}) =>
      /\ message' = "error"
      /\ db_file' = db_file
      /\ config_file' = config_file
      /\ todo' = todo - 1
      /\ ~raised'
    ]_vars

\* C7 as stated: a load_config that finds no configuration file returns the
\* documented default and leaves the file recreated with that default.
C7_Original ==
  [][(LoadStep /\ ~config_file.exists) =>
      /\ config' = DocumentedDefault
      /\ config_file' = [exists |-> TRUE, content |-> DocumentedDefault]
    ]_vars

\* C7 amended: a load_config that finds no configuration file returns the
\* documented default (the two rules, wins = 0 and losses = 0 each) and does not
\* create the file, so that a following load_config returns the default again.
C7_MissingConfigGivesDefault ==
  [][(LoadStep /\ ~config_file.exists) =>
      /\ config' = DocumentedDefault
      /\ DOMAIN config'.rule_stats = {Rule1, Rule2}
      /\ config_file' = config_file
    ]_vars

\* C7 witness: a script run has loaded the configuration while no file exists.
C7_Witness ==
  /\ ~config_file.exists
  /\ config = DocumentedDefault
  /\ pc = "idle"

\* C8: a complete analysis of an image leaves the trade it logs pending, whatever
\* its price, target and stop, and closes only trades that were in the log before.
C8_AuditBeforeInsert ==
  [][(ImageStep /\ response'.kind = "ok") =>
      /\ Len(Log') = Len(Log) + 1
      /\ Log'[Len(Log')].outcome = NULL
      /\ Log'[Len(Log')].target_price = response'.target
      /\ Log'[Len(Log')].stop_price = response'.stop
      /\ \A i \in 1..Len(Log') :
           (Log'[i].outcome # NULL /\ (i > Len(Log) \/ Log[i].outcome = NULL)) => i \in Open
    ]_vars

\* C8 witness: the trade just logged is pending although the price of its own
\* analysis is at or above its target, and an earlier trade was closed.
C8_Witness ==
  /\ Len(Log) >= 2
  /\ response.kind = "ok"
  /\ Log[Len(Log)].outcome = NULL
  /\ response.price >= Log[Len(Log)].target_price
  /\ Log[1].outcome # NULL

\* the smoothed win rate of rule a is at least that of rule b
RateAtLeast(st, a, b) ==
  (st[a].wins + 1) * (st[b].wins + st[b].losses + 1)
    >= (st[b].wins + 1) * (st[a].wins + st[a].losses + 1)

\* C9: during a batch, best_rule is a rule of the statistics loaded at the click
\* whose smoothed win rate is maximal among them, it does not change for the
\* rest of the batch, and every trade logged is recorded under it.
C9_BestRuleOfTheClick ==
  [][ImageStep =>
      /\ best_rule \in DOMAIN config.rule_stats
      /\ \A r \in DOMAIN config.rule_stats : RateAtLeast(config.rule_stats, best_rule, r)
      /\ best_rule' = best_rule
      /\ config' = config
      /\ (Len(Log') > Len(Log) => Log'[Len(Log')].rule_applied = best_rule)
    ]_vars

\* C9 witness: a trade has been logged under the rule chosen at the click after
\* an audit of the same batch made that rule worse than another one.
C9_Witness ==
  /\ response.kind = "ok"
  /\ Len(Log) >= 1
  /\ Log[Len(Log)].rule_applied = best_rule
  /\ \E r \in Rules : ~RateAtLeast(Stats, best_rule, r)
  /\ Stats # config.rule_stats

\* C10: as long as the database has not been reset, the rule statistics count the
\* log: for every rule, wins is the number of its trades closed as wins and losses
\* the number closed as losses, and every trade's rule is a key of rule_stats.
C10_StatsAgreeWithLog ==
  resets = 0 =>
    /\ \A i \in 1..Len(Log) : Log[i].rule_applied \in DOMAIN Stats
    /\ \A r \in DOMAIN Stats :
         /\ Stats[r].wins = Cardinality({i \in 1..Len(Log) :
                               Log[i].rule_applied = r /\ Log[i].outcome = Win})
         /\ Stats[r].losses = Cardinality({i \in 1..Len(Log) :
                               Log[i].rule_applied = r /\ Log[i].outcome = Loss})

\* C10 witness: both rules have trades in the log and both counters are in use.
C10_Witness ==
  /\ resets = 0
  /\ Stats[Rule1].losses = 1
  /\ Stats[Rule2].wins = 1

====
